---- MODULE Spec2Model ----
(***************************************************************************)
(* The composition graph of the AI composition assistant: main() builds    *)
(* the initial GraphState and invokes the compiled StateGraph              *)
(*   dynamic_rule_builder -> composer_planner -> handler_agent             *)
(*   handler_agent  --after_handler-->  composer_planner | reviewer_planner *)
(*   reviewer_planner --after_reviewer--> handler_agent | END              *)
(* under a recursion limit.  handler_agent is a ReAct subgraph (agent node *)
(* and tools node alternating) run under the same recursion limit.         *)
(***************************************************************************)
EXTENDS Integers, Sequences, FiniteSets, TLC

\* ---------------------------------------------------------------- bounds
MaxRecursionLimit == 6
MaxReviewCeiling == 1
MaxMeasures == 3
MaxAddMeasures == 2
MaxOffset == 1          \* offsets of notes, in quarter lengths
MaxNotes == 1           \* notes in one tool call, notes inserted into the part

\* main() puts remaining_steps = 30 into the initial state.
remaining_steps == 30

\* The defaults of --measures, --recursion-limit and --max-review-iterations.
DefaultMeasures == 8
DefaultRecursionLimit == 50
DefaultMaxReviewIterations == 3

\* ------------------------------------------------------------- vocabulary
START == "__start__"
END == "__end__"
REMOVE_ALL_MESSAGES == "__remove_all__"
Nodes == {"dynamic_rule_builder", "composer_planner", "handler_agent", "reviewer_planner"}
MIDI_TOOLS == {"add_notes", "remove_notes", "replace_passage"}

VARIABLES
    args,            \* the parsed command line (main.py 9-23)
    input_file,      \* the MIDI file at args.input: whether it exists, its measures
    pc,              \* the node the graph runs next, END, or "exited"
    step,            \* supersteps the outer graph has executed
    target_measures, \* GraphState.target_measures
    midi_handler,    \* GraphState.midi_handler: loaded?, number of Measure objects
    kb,              \* GraphState.kb: built?, generated_rules set?, dynamic_context
    messages,        \* GraphState.messages
    reviewer_satisfied,
    review_iterations,
    in_review_mode,
    agent,           \* the ReAct subgraph inside handler_agent: node, supersteps,
                     \* how the tool call just made ended
    files,           \* how often each MIDI file has been written
    stdout,          \* the kinds of lines printed so far
    exit_code,       \* -1 while running, else the exit status of main()
    hist,            \* history: node executions, oracle calls, the last verdict,
                     \* whether every composition hand-off so far added measures,
                     \* the exception that ended the session and where it arose
    score,           \* the notes of midi_data.parts[0], note by note (ToolSpec)
    call,            \* the tool call made last on that score (ToolSpec)
    sessions,        \* two runs of main() side by side (PairSpec)
    disk             \* the MIDI files those runs have written (PairSpec)

vars == <<args, input_file, pc, step, target_measures, midi_handler, kb, messages,
          reviewer_satisfied, review_iterations, in_review_mode, agent, files,
          stdout, exit_code, hist, score, call, sessions, disk>>

\* ---------------------------------------------------------- knowledge base

\* KnowledgeBase.build_algorithmic_dynamic: key, time signature and chord
\* progression of the score as it is when the call is made; of the score Spec
\* keeps the measure count, which stands for that analysis.
build_algorithmic_dynamic(mh) == mh.measures

summary_llm_friendly_forgets(k) == [k EXCEPT !.generated_rules = FALSE]

\* KnowledgeBase.summary_llm_friendly, as the knowledge base is after the call:
\* the method only reads dynamic_context, generated_rules and rules.
summary_llm_friendly(k) == k

\* A node's return value is merged into the state: a key the node does not
\* return keeps its value.
merged(ret, key, old) == IF key \in DOMAIN ret THEN ret[key] ELSE old

\* ------------------------------------------------------------ fixed edges

add_edge_back_to_builder(from) ==
    CASE from = START -> "dynamic_rule_builder"
      [] from = "dynamic_rule_builder" -> "composer_planner"
      [] from = "composer_planner" -> "dynamic_rule_builder"

\* graph.add_edge: the three unconditional edges of the graph.
add_edge(from) ==
    CASE from = START -> "dynamic_rule_builder"
      [] from = "dynamic_rule_builder" -> "composer_planner"
      [] from = "composer_planner" -> "handler_agent"

\* ------------------------------------------------------------------ Init

\* Spec follows the session and keeps of the score its measure count only
\* (midi_handler.measures); ToolSpec follows the score note by note.
NoKB == [built |-> FALSE, generated_rules |-> FALSE, dynamic_context |-> 0]
NoSessions == <<>>
NoDisk == <<>>
NoScore == [nested |-> {}, top |-> <<>>]
NoCall == [tool |-> "none", status |-> "none", changed |-> FALSE, report |-> 0,
           start |-> 0, end |-> 0]

init_state ==
    /\ target_measures = 0
    /\ kb = NoKB
    /\ midi_handler = [loaded |-> FALSE, measures |-> 0]
    /\ messages = <<>>
    /\ reviewer_satisfied = FALSE
    /\ review_iterations = 0
    /\ in_review_mode = FALSE

Init ==
    /\ args \in [recursion_limit : 1..MaxRecursionLimit,
                 measures : 0..MaxAddMeasures,
                 max_review_iterations : 0..MaxReviewCeiling]
    /\ input_file \in [exists : BOOLEAN, measures : 1..(MaxMeasures - 1)]
    /\ init_state
    /\ pc = add_edge(START)
    /\ step = 0
    /\ agent = [node |-> "none", step |-> 0, entry_measures |-> 0,
                last |-> "none"]
    /\ files = [pre_review |-> 0, output |-> 0]
    /\ stdout = {}
    /\ exit_code = -1
    /\ hist = [builder_runs |-> 0, composer_runs |-> 0, handler_runs |-> 0,
               review_handler_runs |-> 0, reviewer_runs |-> 0,
               builder_llm_calls |-> 0, composer_llm_calls |-> 0,
               reviewer_llm_calls |-> 0,
               verdict |-> "none", all_extended |-> TRUE,
               raised |-> "none", failed_at |-> "none"]
    /\ score = NoScore
    /\ call = NoCall
    /\ sessions = NoSessions
    /\ disk = NoDisk

\* ------------------------------------------------------- pure functions

\* Mutant: the limit check is one superstep late.
out_of_steps_late(done, limit) == done > limit

\* The superstep check of the graph run: a run configured with recursion_limit
\* executes at most that many supersteps and raises GraphRecursionError when
\* another one is due.
out_of_steps(done, limit) == done >= limit

\* The add_messages reducer of GraphState.messages: an update holding
\* RemoveMessage(REMOVE_ALL_MESSAGES) replaces the log by what follows the
\* marker; any other update is appended.
LastRemoveAll(right) ==
    LET idx == {i \in 1..Len(right) : right[i] = REMOVE_ALL_MESSAGES}
    IN  IF idx = {} THEN 0 ELSE CHOOSE i \in idx : \A j \in idx : j <= i

add_messages(left, right) ==
    IF LastRemoveAll(right) > 0
    THEN SubSeq(right, LastRemoveAll(right) + 1, Len(right))
    ELSE left \o right

\* Mutant: the Composer delivers its instruction without the wipe.
composer_new_msgs_no_wipe(msgs) == <<"human_composer">>

\* composer_planner's update: wipe, restore the system prompt, new instruction.
composer_new_msgs(msgs) ==
    <<REMOVE_ALL_MESSAGES,
      IF msgs # <<>> THEN msgs[1] ELSE "None",
      "human_composer">>

\* Mutant: the ceiling test lets one more review through.
ceiling_reached_late(current_iterations, max_iterations) ==
    current_iterations > max_iterations

ceiling_reached_never(current_iterations, max_iterations) == FALSE

\* reviewer_planner's ceiling test on entry.
ceiling_reached(current_iterations, max_iterations) ==
    current_iterations >= max_iterations

\* Mutants: a return value that does not count the iteration.
ceiling_return_no_count(current_iterations) ==
    [messages |-> <<>>, reviewer_satisfied |-> TRUE,
     review_iterations |-> current_iterations, in_review_mode |-> FALSE]

revise_return_no_count(current_iterations) ==
    [messages |-> <<"human_reviewer">>, reviewer_satisfied |-> FALSE,
     review_iterations |-> current_iterations, in_review_mode |-> TRUE]

\* reviewer_planner's three kinds of return value.
ceiling_return(current_iterations) ==
    [messages |-> <<>>, reviewer_satisfied |-> TRUE,
     review_iterations |-> current_iterations + 1, in_review_mode |-> FALSE]

satisfied_return_reloads(current_iterations) ==
    [messages |-> <<>>, reviewer_satisfied |-> TRUE,
     review_iterations |-> current_iterations + 1, in_review_mode |-> FALSE,
     midi_handler |-> [loaded |-> TRUE, measures |-> 0]]

satisfied_return_no_count(current_iterations) ==
    [messages |-> <<>>, reviewer_satisfied |-> TRUE,
     review_iterations |-> current_iterations, in_review_mode |-> FALSE]

satisfied_return(current_iterations) ==
    [messages |-> <<>>, reviewer_satisfied |-> TRUE,
     review_iterations |-> current_iterations + 1, in_review_mode |-> FALSE]

revise_return_leaves_mode(current_iterations) ==
    [messages |-> <<"human_reviewer">>, reviewer_satisfied |-> FALSE,
     review_iterations |-> current_iterations + 1, in_review_mode |-> FALSE]

revise_return(current_iterations) ==
    [messages |-> <<"human_reviewer">>, reviewer_satisfied |-> FALSE,
     review_iterations |-> current_iterations + 1, in_review_mode |-> TRUE]

\* Mutants of the routing after handler_agent: the comparison lets the target
\* itself count as short; the review mode is not looked at; the composition
\* loop is left after one hand-off.
after_handler_le(review_mode, cur_measures, target) ==
    IF review_mode THEN "reviewer_planner"
    ELSE IF cur_measures <= target THEN "composer_planner"
    ELSE "reviewer_planner"

after_handler_ignores_mode(review_mode, cur_measures, target) ==
    IF cur_measures < target THEN "composer_planner" ELSE "reviewer_planner"

after_handler_skips_composer(review_mode, cur_measures, target) ==
    "reviewer_planner"

\* Routing after handler_agent.
after_handler(review_mode, cur_measures, target) ==
    IF review_mode THEN "reviewer_planner"
    ELSE IF cur_measures < target THEN "composer_planner"
    ELSE "reviewer_planner"

\* Mutant: the verdict is not looked at.
after_reviewer_always_end(satisfied) == END

\* Routing after reviewer_planner.
after_reviewer(satisfied) ==
    IF satisfied THEN END ELSE "handler_agent"

\* How a tool call ends.  A call whose arguments break the tool's schema is
\* rejected before the tool runs.  MidiHandler.replace_passage unpacks each
\* new note as (pitch, ql) while the tool hands it (pitch, duration, offset)
\* triples: with new notes it raises after its remove_notes has run.
\* MidiHandler.add_notes raises at the first pitch music21 cannot read, the
\* notes before it already inserted.
tool_status(tool, valid, no_notes, bad_pitch) ==
    IF ~valid THEN "rejected"
    ELSE IF tool = "replace_passage" /\ ~no_notes THEN "raised"
    ELSE IF tool = "add_notes" /\ bad_pitch THEN "raised"
    ELSE "applied"

\* The message the tools node appends for a call: the tool's text, or the
\* error text of a rejected or failed call.
tool_message(status) ==
    IF status = "applied" THEN "tool" ELSE "tool_error"

\* The measure counts the artifact may have after a tool call, none above cap
\* (see measures_after).
measures_up_to(tool, status, m, cap) ==
    IF status = "rejected" THEN {m}
    ELSE IF tool = "add_notes" THEN m..cap
    ELSE 0..m

\* Mutant: a rejected call has edited the artifact all the same.
measures_after_unchecked(tool, status, m) ==
    IF tool = "add_notes" THEN m..MaxMeasures ELSE 0..m

\* The measure counts the artifact may have after a tool call.  The tools
\* edit the music21 part; what an edit does to the number of Measure objects
\* is music21's decision, so every count the direction of the edit allows is
\* possible: add_notes only inserts, remove_notes and replace_passage (which
\* inserts nothing unless it is given no notes) only remove.  A rejected call
\* leaves the artifact alone.
measures_after(tool, status, m) ==
    IF status = "rejected" THEN {m}
    ELSE IF tool = "add_notes" THEN m..MaxMeasures
    ELSE 0..m

\* The ReAct agent's test for ending a hand-off early: the oracle asks for
\* tools and fewer than two steps remain.
more_steps_needed(remaining, has_tool_calls) ==
    has_tool_calls /\ remaining < 2

\* Mutant: the target is the increment alone.
target_after_build_increment_only(add_measures, measures) == add_measures

\* dynamic_rule_builder's target: increment plus the measures at load time.
target_after_build(add_measures, measures) == add_measures + measures

\* Mutant: the oracle is asked before the file is loaded and summarised.
oracle_calls_before_asks_first(stage) == 1

\* Oracle calls dynamic_rule_builder has made when it fails at a stage: the
\* file is loaded and summarised before the oracle is asked.
oracle_calls_before(stage) == IF stage = "oracle" THEN 1 ELSE 0

\* Mutant: after_handler saves whenever the target is reached, fix or not.
saves_pre_review_any_mode(review_mode, cur_measures, target) ==
    ~(cur_measures < target)

\* after_handler saves the pre-review file in its last branch only.
saves_pre_review(review_mode, cur_measures, target) ==
    ~review_mode /\ ~(cur_measures < target)

\* Mutant: save_midi writes the file twice.
save_midi_twice(written, path) == [written EXCEPT ![path] = @ + 2]

\* MidiHandler.save_midi writes the file at the path.
save_midi(written, path) == [written EXCEPT ![path] = @ + 1]

\* Mutant: every except clause prints the general line.
except_line_general(exc) == "An error occurred during composition"

\* main()'s except clauses: the line printed and the exit status.
except_line(exc) ==
    IF exc = "GraphRecursionError" THEN "Graph recursion error"
    ELSE IF exc = "FileNotFoundError" THEN "File not found"
    ELSE "An error occurred during composition"

\* Mutant: main() exits with status 0 from its except clauses.
except_exit_code_zero(exc) == 0

except_exit_code(exc) == 1

\* ---------------------------------------------------------------- main()

\* main()'s exception handlers and its success path: print one line, exit.
Exit(code, line) ==
    /\ exit_code' = code
    /\ stdout' = stdout \cup {line}
    /\ pc' = "exited"

Running == exit_code = -1

\* The graph is about to run the node n as its next superstep.
Tick(n) ==
    /\ Running
    /\ pc = n
    /\ agent.node = "none"
    /\ ~out_of_steps(step, args.recursion_limit)

\* except Exception: any failure of an oracle call, of music21 or of a node.
Raise ==
    /\ Exit(except_exit_code("Exception"), except_line("Exception"))
    /\ UNCHANGED <<args, input_file, target_measures, midi_handler, messages,
                   reviewer_satisfied, review_iterations, in_review_mode, files>>

\* ----------------------------------------------------- dynamic_rule_builder

\* MidiHandler(state["midi_path"]) fails: the input file is missing.
dynamic_rule_builder_no_file ==
    /\ Tick("dynamic_rule_builder")
    /\ ~input_file.exists
    /\ step' = step + 1
    /\ hist' = [hist EXCEPT !.builder_runs = @ + 1,
                            !.builder_llm_calls = @ + oracle_calls_before("load"),
                            !.raised = "FileNotFoundError", !.failed_at = "load"]
    /\ Exit(except_exit_code("FileNotFoundError"), except_line("FileNotFoundError"))
    /\ UNCHANGED <<args, input_file, target_measures, midi_handler, kb, messages,
                   reviewer_satisfied, review_iterations, in_review_mode, agent, files>>
    /\ UNCHANGED <<score, call, sessions, disk>>

\* The analysis of the loaded file fails before the oracle is asked.
dynamic_rule_builder_summary_fails ==
    /\ Tick("dynamic_rule_builder")
    /\ input_file.exists
    /\ step' = step + 1
    /\ hist' = [hist EXCEPT !.builder_runs = @ + 1,
                            !.builder_llm_calls = @ + oracle_calls_before("summary"),
                            !.raised = "Exception", !.failed_at = "summary"]
    /\ Raise
    /\ UNCHANGED <<agent, kb>>
    /\ UNCHANGED <<score, call, sessions, disk>>

\* dynamic_rule_builder_llm.invoke raises.
dynamic_rule_builder_llm_fails ==
    /\ Tick("dynamic_rule_builder")
    /\ input_file.exists
    /\ step' = step + 1
    /\ hist' = [hist EXCEPT !.builder_runs = @ + 1,
                            !.builder_llm_calls = @ + oracle_calls_before("oracle"),
                            !.raised = "Exception", !.failed_at = "oracle"]
    /\ Raise
    /\ UNCHANGED <<agent, kb>>
    /\ UNCHANGED <<score, call, sessions, disk>>

dynamic_rule_builder ==
    /\ Tick("dynamic_rule_builder")
    /\ input_file.exists
    /\ step' = step + 1
    /\ hist' = [hist EXCEPT !.builder_runs = @ + 1, !.builder_llm_calls = @ + 1]
    /\ midi_handler' = [loaded |-> TRUE, measures |-> input_file.measures]
    /\ kb' = [built |-> TRUE, generated_rules |-> TRUE,
              dynamic_context |-> build_algorithmic_dynamic(midi_handler')]
    /\ target_measures' = target_after_build(args.measures, input_file.measures)
    /\ messages' = add_messages(messages, <<"system">>)
    /\ stdout' = stdout \cup {"Generated Rules"}
    /\ pc' = add_edge("dynamic_rule_builder")
    /\ UNCHANGED <<args, input_file, reviewer_satisfied, review_iterations,
                   in_review_mode, agent, files, exit_code>>
    /\ UNCHANGED <<score, call, sessions, disk>>

\* --------------------------------------------------------- composer_planner

composer_planner_llm_fails ==
    /\ Tick("composer_planner")
    /\ step' = step + 1
    /\ hist' = [hist EXCEPT !.composer_runs = @ + 1, !.composer_llm_calls = @ + 1,
                            !.raised = "Exception", !.failed_at = "oracle"]
    /\ kb' = summary_llm_friendly(kb)
    /\ Raise
    /\ UNCHANGED agent
    /\ UNCHANGED <<score, call, sessions, disk>>

composer_return_satisfied(msgs) ==
    [messages |-> composer_new_msgs(msgs), reviewer_satisfied |-> TRUE]

\* return {"messages": new_msgs}
composer_return(msgs) == [messages |-> composer_new_msgs(msgs)]

composer_planner ==
    /\ Tick("composer_planner")
    /\ step' = step + 1
    /\ hist' = [hist EXCEPT !.composer_runs = @ + 1, !.composer_llm_calls = @ + 1]
    /\ messages' = add_messages(messages, composer_return(messages).messages)
    /\ target_measures' = merged(composer_return(messages), "target_measures",
                                 target_measures)
    /\ midi_handler' = merged(composer_return(messages), "midi_handler", midi_handler)
    /\ kb' = merged(composer_return(messages), "kb", summary_llm_friendly(kb))
    /\ reviewer_satisfied' = merged(composer_return(messages), "reviewer_satisfied",
                                    reviewer_satisfied)
    /\ review_iterations' = merged(composer_return(messages), "review_iterations",
                                   review_iterations)
    /\ in_review_mode' = merged(composer_return(messages), "in_review_mode",
                                in_review_mode)
    /\ stdout' = stdout \cup {"Composer Edit Intention"}
    /\ pc' = add_edge("composer_planner")
    /\ UNCHANGED <<args, input_file, agent, files, exit_code>>
    /\ UNCHANGED <<score, call, sessions, disk>>

\* ------------------------------------------------------------ handler_agent

\* The graph enters handler_agent: the ReAct subgraph starts at its agent node
\* with a superstep count of its own.
handler_agent_enter ==
    /\ Tick("handler_agent")
    /\ step' = step + 1
    /\ agent' = [node |-> "agent", step |-> 0, entry_measures |-> midi_handler.measures,
                 last |-> "none"]
    /\ hist' = [hist EXCEPT !.handler_runs = @ + 1,
                            !.review_handler_runs = IF in_review_mode THEN @ + 1 ELSE @]
    /\ UNCHANGED <<args, input_file, pc, target_measures, midi_handler, kb, messages,
                   reviewer_satisfied, review_iterations, in_review_mode, files,
                   stdout, exit_code>>
    /\ UNCHANGED <<score, call, sessions, disk>>

InAgent(n) ==
    /\ Running
    /\ pc = "handler_agent"
    /\ agent.node = n
    /\ ~out_of_steps(agent.step, args.recursion_limit)

\* handler_llm raises.
handler_agent_llm_fails ==
    /\ InAgent("agent")
    /\ hist' = [hist EXCEPT !.raised = "Exception", !.failed_at = "oracle"]
    /\ Raise
    /\ UNCHANGED <<step, agent, kb>>
    /\ UNCHANGED <<score, call, sessions, disk>>

\* The oracle answers with tool calls and the agent does not end the hand-off
\* early: the tools node runs next.
handler_agent_tool_calls ==
    /\ InAgent("agent")
    /\ ~more_steps_needed(remaining_steps, TRUE)
    /\ messages' = add_messages(messages, <<"ai_tool_calls">>)
    /\ agent' = [agent EXCEPT !.node = "tools", !.step = @ + 1,
                              !.last = "none"]
    /\ UNCHANGED <<args, input_file, pc, step, target_measures, midi_handler, kb,
                   reviewer_satisfied, review_iterations, in_review_mode, files,
                   stdout, exit_code, hist>>
    /\ UNCHANGED <<score, call, sessions, disk>>

\* The tools node runs one requested tool.  A call the schema rejects and a
\* tool that raises are both answered with an error message, and the agent
\* node runs next.  The pitches of the call are names music21 reads; ToolSpec
\* has the calls with other pitches.
handler_agent_tools ==
    /\ InAgent("tools")
    /\ \E tool \in MIDI_TOOLS, valid \in BOOLEAN, no_notes \in BOOLEAN :
        LET status == tool_status(tool, valid, no_notes, FALSE)
        IN  /\ \E m \in measures_after(tool, status, midi_handler.measures) :
                  midi_handler' = [midi_handler EXCEPT !.measures = m]
            /\ messages' = add_messages(messages, <<tool_message(status)>>)
            /\ agent' = [agent EXCEPT !.node = "agent", !.step = @ + 1,
                                      !.last = status]
    /\ UNCHANGED <<args, input_file, pc, step, target_measures, kb,
                   reviewer_satisfied, review_iterations, in_review_mode, files,
                   stdout, exit_code, hist>>
    /\ UNCHANGED <<score, call, sessions, disk>>

\* A tool raises and the tools node lets the exception through: whether it
\* answers a tool's own exception with an error message or re-raises it is
\* the installed langgraph's default.
handler_agent_tool_fails ==
    /\ InAgent("tools")
    /\ \E tool \in MIDI_TOOLS, valid \in BOOLEAN, no_notes \in BOOLEAN :
        LET status == tool_status(tool, valid, no_notes, FALSE)
        IN  /\ status = "raised"
            /\ \E m \in measures_after(tool, status, midi_handler.measures) :
                  midi_handler' = [midi_handler EXCEPT !.measures = m]
            /\ agent' = [agent EXCEPT !.last = status]
    /\ hist' = [hist EXCEPT !.raised = "Exception", !.failed_at = "tool"]
    /\ Exit(except_exit_code("Exception"), except_line("Exception"))
    /\ UNCHANGED <<args, input_file, step, target_measures, kb, messages,
                   reviewer_satisfied, review_iterations, in_review_mode, files>>
    /\ UNCHANGED <<score, call, sessions, disk>>

\* The oracle answers without tool calls (or the agent ends the hand-off
\* early): the subgraph ends, handler_agent returns and after_handler routes,
\* saving the pre-review file on the way into the review phase.
handler_agent_return ==
    /\ InAgent("agent")
    /\ LET route == after_handler(in_review_mode, midi_handler.measures, target_measures)
           checkpoint == saves_pre_review(in_review_mode, midi_handler.measures,
                                          target_measures)
       IN  /\ pc' = route
           /\ files' = IF checkpoint THEN save_midi(files, "pre_review") ELSE files
           /\ stdout' = stdout \cup
                 (IF in_review_mode THEN {"Handler completed reviewer's fix"}
                  ELSE IF checkpoint THEN {"Current measures", "Target measures reached"}
                  ELSE {"Current measures"})
    /\ messages' = add_messages(messages, <<"ai">>)
    /\ agent' = [agent EXCEPT !.node = "none", !.step = @ + 1,
                              !.last = "none"]
    /\ hist' = [hist EXCEPT !.all_extended = IF in_review_mode THEN @
                                ELSE @ /\ midi_handler.measures > agent.entry_measures]
    /\ UNCHANGED <<args, input_file, step, target_measures, midi_handler, kb,
                   reviewer_satisfied, review_iterations, in_review_mode, exit_code>>
    /\ UNCHANGED <<score, call, sessions, disk>>

\* --------------------------------------------------------- reviewer_planner

\* What reviewer_planner returns is merged into the state and after_reviewer
\* routes on the merged state.
ReviewerReturns(r) ==
    /\ messages' = add_messages(messages, r.messages)
    /\ reviewer_satisfied' = r.reviewer_satisfied
    /\ review_iterations' = r.review_iterations
    /\ in_review_mode' = r.in_review_mode
    /\ target_measures' = merged(r, "target_measures", target_measures)
    /\ midi_handler' = merged(r, "midi_handler", midi_handler)
    /\ pc' = after_reviewer(r.reviewer_satisfied)
    /\ step' = step + 1
    /\ UNCHANGED <<args, input_file, agent, files, exit_code>>

Routed(satisfied) ==
    IF satisfied THEN "Reviewer approved the composition" ELSE "Reviewer found issues"

\* The ceiling is reached on entry: no oracle call.
reviewer_planner_ceiling ==
    /\ Tick("reviewer_planner")
    /\ ceiling_reached(review_iterations, args.max_review_iterations)
    /\ ReviewerReturns(ceiling_return(review_iterations))
    /\ UNCHANGED kb
    /\ stdout' = stdout \cup {"Maximum review iterations reached",
                              Routed(ceiling_return(review_iterations).reviewer_satisfied)}
    /\ hist' = [hist EXCEPT !.reviewer_runs = @ + 1, !.verdict = "Forced"]
    /\ UNCHANGED <<score, call, sessions, disk>>

reviewer_planner_llm_fails ==
    /\ Tick("reviewer_planner")
    /\ ~ceiling_reached(review_iterations, args.max_review_iterations)
    /\ step' = step + 1
    /\ hist' = [hist EXCEPT !.reviewer_runs = @ + 1, !.reviewer_llm_calls = @ + 1,
                            !.raised = "Exception", !.failed_at = "oracle"]
    /\ kb' = summary_llm_friendly(kb)
    /\ Raise
    /\ UNCHANGED agent
    /\ UNCHANGED <<score, call, sessions, disk>>

\* The oracle answers "Verified" (in any case, with any padding).
reviewer_planner_verified ==
    /\ Tick("reviewer_planner")
    /\ ~ceiling_reached(review_iterations, args.max_review_iterations)
    /\ ReviewerReturns(satisfied_return(review_iterations))
    /\ kb' = merged(satisfied_return(review_iterations), "kb", summary_llm_friendly(kb))
    /\ stdout' = stdout \cup {"Review iteration", "Reviewer is satisfied",
                              Routed(satisfied_return(review_iterations).reviewer_satisfied)}
    /\ hist' = [hist EXCEPT !.reviewer_runs = @ + 1, !.reviewer_llm_calls = @ + 1,
                            !.verdict = "Satisfied"]
    /\ UNCHANGED <<score, call, sessions, disk>>

\* The oracle answers with nothing but white space.
reviewer_planner_empty ==
    /\ Tick("reviewer_planner")
    /\ ~ceiling_reached(review_iterations, args.max_review_iterations)
    /\ ReviewerReturns(satisfied_return(review_iterations))
    /\ kb' = merged(satisfied_return(review_iterations), "kb", summary_llm_friendly(kb))
    /\ stdout' = stdout \cup {"Review iteration", "Reviewer critique", "Reviewer is satisfied",
                              Routed(satisfied_return(review_iterations).reviewer_satisfied)}
    /\ hist' = [hist EXCEPT !.reviewer_runs = @ + 1, !.reviewer_llm_calls = @ + 1,
                            !.verdict = "Satisfied"]
    /\ UNCHANGED <<score, call, sessions, disk>>

\* The oracle answers with a critique.
reviewer_planner_revise ==
    /\ Tick("reviewer_planner")
    /\ ~ceiling_reached(review_iterations, args.max_review_iterations)
    /\ ReviewerReturns(revise_return(review_iterations))
    /\ kb' = merged(revise_return(review_iterations), "kb", summary_llm_friendly(kb))
    /\ stdout' = stdout \cup {"Review iteration", "Reviewer critique",
                              Routed(revise_return(review_iterations).reviewer_satisfied)}
    /\ hist' = [hist EXCEPT !.reviewer_runs = @ + 1, !.reviewer_llm_calls = @ + 1,
                            !.verdict = "Revise"]
    /\ UNCHANGED <<score, call, sessions, disk>>

\* ------------------------------------------------------------ graph run end

\* Another superstep is due, of the graph or of the handler's subgraph, and
\* the recursion limit is used up: GraphRecursionError reaches main().
graph_recursion_error ==
    /\ Running
    /\ \/ pc \in Nodes /\ agent.node = "none" /\ out_of_steps(step, args.recursion_limit)
       \/ pc = "handler_agent" /\ agent.node # "none"
            /\ out_of_steps(agent.step, args.recursion_limit)
    /\ Exit(except_exit_code("GraphRecursionError"), except_line("GraphRecursionError"))
    /\ hist' = [hist EXCEPT !.raised = "GraphRecursionError", !.failed_at = "budget"]
    /\ UNCHANGED <<args, input_file, step, target_measures, midi_handler, kb, messages,
                   reviewer_satisfied, review_iterations, in_review_mode, agent,
                   files>>
    /\ UNCHANGED <<score, call, sessions, disk>>

\* The graph reached END: main() saves the result.
main_save ==
    /\ Running
    /\ pc = END
    /\ files' = save_midi(files, "output")
    /\ Exit(0, "Successfully saved composed MIDI")
    /\ UNCHANGED <<args, input_file, step, target_measures, midi_handler, kb, messages,
                   reviewer_satisfied, review_iterations, in_review_mode, agent, hist>>
    /\ UNCHANGED <<score, call, sessions, disk>>

Next ==
    \/ dynamic_rule_builder_no_file
    \/ dynamic_rule_builder_summary_fails
    \/ dynamic_rule_builder_llm_fails
    \/ dynamic_rule_builder
    \/ composer_planner_llm_fails
    \/ composer_planner
    \/ handler_agent_enter
    \/ handler_agent_llm_fails
    \/ handler_agent_tool_calls
    \/ handler_agent_tools
    \/ handler_agent_tool_fails
    \/ handler_agent_return
    \/ reviewer_planner_ceiling
    \/ reviewer_planner_llm_fails
    \/ reviewer_planner_verified
    \/ reviewer_planner_empty
    \/ reviewer_planner_revise
    \/ graph_recursion_error
    \/ main_save

Spec == Init /\ [][Next]_vars

\* ---------------------------------------------------------------- ToolSpec
\* The three tools called one after another on a loaded MidiHandler, the
\* score followed note by note.  A note of the loaded file sits in a Measure
\* of the part and its offset counts from the start of that Measure; a note
\* add_notes inserted sits in the part itself, at its absolute offset.

Pitches == {"C4", "H9"}

\* m21.note.Note(pitch) raises for a string that is no pitch name.
Note_raises(pitch) == pitch = "H9"

\* The notes of the calls: the notes inside the schema, and one note for
\* each constraint of the schema that it breaks.
NoteInput ==
    [pitch : Pitches, duration : {1}, offset : 0..MaxOffset]
    \cup {[pitch |-> "C4", duration |-> 0, offset |-> 0],
          [pitch |-> "C4", duration |-> 1, offset |-> -1]}

\* The constraints of NoteInput: duration gt=0, offset ge=0.
NoteInput_valid(n) == n.duration > 0 /\ n.offset >= 0

NoteLists == UNION {[1..k -> NoteInput] : k \in 0..MaxNotes}

\* The tuples the tools build from the notes of a call.
as_tuples(notes) ==
    [i \in 1..Len(notes) |-> <<notes[i].pitch, notes[i].duration, notes[i].offset>>]

\* MidiHandler.add_notes: insert the notes in order into the part; the first
\* unreadable pitch raises, the notes before it stay inserted.
RECURSIVE add_notes(_, _)
add_notes(sc, notes) ==
    IF notes = <<>> THEN [score |-> sc, raised |-> FALSE]
    ELSE IF Len(Head(notes)) # 3 \/ Note_raises(Head(notes)[1])
         THEN [score |-> sc, raised |-> TRUE]
         ELSE add_notes([sc EXCEPT !.top = Append(@, [pitch |-> Head(notes)[1],
                                                     ql |-> Head(notes)[2],
                                                     offset |-> Head(notes)[3]])],
                        Tail(notes))

\* remove_notes' test on note.offset.
in_window(offset, start, end) == start <= offset /\ offset < end

\* MidiHandler.remove_notes: every note of the part, nested or not, is tested
\* on its own offset and counted; part.remove takes out the notes that sit in
\* the part itself and leaves the notes of the Measures where they are.
remove_notes(sc, start, end) ==
    [score |-> [sc EXCEPT !.top = SelectSeq(@, LAMBDA n : ~in_window(n.offset, start, end))],
     removed |-> Cardinality({n \in sc.nested : in_window(n.offset, start, end)})
                 + Len(SelectSeq(sc.top, LAMBDA n : in_window(n.offset, start, end)))]

\* MidiHandler.replace_passage: remove_notes, then a loop that unpacks each
\* new note as a pair and adds it at the running offset.
RECURSIVE replace_passage_loop(_, _, _)
replace_passage_loop(sc, cur, notes) ==
    IF notes = <<>> THEN [score |-> sc, raised |-> FALSE]
    ELSE IF Len(Head(notes)) # 2 THEN [score |-> sc, raised |-> TRUE]
    ELSE LET added == add_notes(sc, <<<<Head(notes)[1], Head(notes)[2], cur>>>>)
         IN  IF added.raised THEN added
             ELSE replace_passage_loop(added.score, cur + Head(notes)[2], Tail(notes))

replace_passage(sc, start, end, notes) ==
    replace_passage_loop(remove_notes(sc, start, end).score, start, notes)

\* The loaded files are in a metre of MaxOffset + 1 quarter notes to the
\* measure: where a note of a Measure starts, counted from the start of the
\* part (getOffsetInHierarchy).
getOffsetInHierarchy(n) == n.measure * (MaxOffset + 1) + n.offset

\* The loaded files: up to two notes in the Measures of the part.
LoadedScores ==
    {[nested |-> ns, top |-> <<>>] :
        ns \in {x \in SUBSET [measure : 0..1, offset : 0..MaxOffset] : Cardinality(x) <= 2}}

Idle ==
    /\ args = [recursion_limit |-> MaxRecursionLimit, measures |-> 0,
               max_review_iterations |-> 0]
    /\ input_file = [exists |-> TRUE, measures |-> 2]
    /\ target_measures = 0
    /\ kb = NoKB
    /\ midi_handler = [loaded |-> TRUE, measures |-> 2]
    /\ messages = <<>>
    /\ reviewer_satisfied = FALSE
    /\ review_iterations = 0
    /\ in_review_mode = FALSE
    /\ pc = "handler_agent"
    /\ step = 0
    /\ agent = [node |-> "tools", step |-> 0, entry_measures |-> 2, last |-> "none"]
    /\ files = [pre_review |-> 0, output |-> 0]
    /\ stdout = {}
    /\ exit_code = -1
    /\ hist = [builder_runs |-> 0, composer_runs |-> 0, handler_runs |-> 0,
               review_handler_runs |-> 0, reviewer_runs |-> 0,
               builder_llm_calls |-> 0, composer_llm_calls |-> 0,
               reviewer_llm_calls |-> 0,
               verdict |-> "none", all_extended |-> TRUE,
               raised |-> "none", failed_at |-> "none"]

ToolInit ==
    /\ Idle
    /\ score \in LoadedScores
    /\ call = NoCall
    /\ sessions = NoSessions
    /\ disk = NoDisk

\* How a call ends: rejected by the schema, raised in the MidiHandler, or
\* gone through.
call_status(valid, raised) ==
    IF ~valid THEN "rejected" ELSE IF raised THEN "raised" ELSE "applied"

\* What a tool call leaves behind: the score, and the call with its status,
\* whether it changed the score, the count its text reports and, for
\* remove_notes, the window it was given.
Called(tool, status, after, report, start, end) ==
    /\ Len(after.top) <= MaxNotes
    /\ score' = after
    /\ call' = [tool |-> tool, status |-> status, changed |-> after # score,
                report |-> report, start |-> start, end |-> end]
    /\ UNCHANGED <<args, input_file, pc, step, target_measures, midi_handler, kb,
                   messages, reviewer_satisfied, review_iterations, in_review_mode,
                   agent, files, stdout, exit_code, hist, sessions, disk>>

\* The add_notes tool.
tool_add_notes ==
    \E notes \in NoteLists :
        LET valid == \A i \in 1..Len(notes) : NoteInput_valid(notes[i])
            done == add_notes(score, as_tuples(notes))
            status == call_status(valid, done.raised)
        IN  Called("add_notes", status,
                   IF status = "rejected" THEN score ELSE done.score,
                   IF status = "applied" THEN Len(notes) ELSE 0, 0, 0)

\* The remove_notes tool: both offsets gt=0.
tool_remove_notes ==
    \E start \in (-1)..MaxOffset, end \in (-1)..(MaxOffset + 1) :
        LET valid == start > 0 /\ end > 0
            done == remove_notes(score, start, end)
            status == call_status(valid, FALSE)
        IN  Called("remove_notes", status,
                   IF status = "rejected" THEN score ELSE done.score,
                   IF status = "applied" THEN done.removed ELSE 0, start, end)

\* The replace_passage tool: start ge=0, end gt=0, the notes as in add_notes.
tool_replace_passage ==
    \E start \in (-1)..MaxOffset, end \in (-1)..(MaxOffset + 1), notes \in NoteLists :
        LET valid == /\ start >= 0 /\ end > 0
                     /\ \A i \in 1..Len(notes) : NoteInput_valid(notes[i])
            done == replace_passage(score, start, end, as_tuples(notes))
            status == call_status(valid, done.raised)
        IN  Called("replace_passage", status,
                   IF status = "rejected" THEN score ELSE done.score,
                   IF status = "applied" THEN Len(notes) ELSE 0, 0, 0)

ToolNext ==
    \/ tool_add_notes
    \/ tool_remove_notes
    \/ tool_replace_passage

ToolSpec == ToolInit /\ [][ToolNext]_vars

\* ------------------------------------------------------------------ claims

NodeRuns ==
    hist.builder_runs + hist.composer_runs + hist.handler_runs + hist.reviewer_runs

StepBudget == args.recursion_limit - step

\* handler_agent has just returned (the step of handler_agent_return).
HandlerReturned == agent.node = "agent" /\ agent'.node = "none"

\* reviewer_planner has just returned a verdict.
ReviewerReturned ==
    pc = "reviewer_planner" /\ hist'.reviewer_runs = hist.reviewer_runs + 1 /\ pc' # "exited"

\* The Handler is about to start on an instruction just handed to it.
HandedOff == Running /\ pc = "handler_agent" /\ agent.node = "none"

\* ---------------------------------------------------------------- PairSpec
\* Two runs of main() on one machine, in one working directory, their steps
\* interleaved.  Each run has its own process, hence its own GraphState; the
\* files they write are on the disk they share.

Sessions == {1, 2}

\* after_handler's save_midi argument.
PreReviewPath == "our_generated_output/last_output_pre_review.mid"

\* --output: the default, or a path of the user's.
OutputPaths == {"our_generated_output/extended_piece.mid", "mine.mid"}

Paths == OutputPaths \cup {PreReviewPath}

NoFile == [writer |-> 0, measures |-> 0]

\* MidiHandler.save_midi: midi_data.write("midi", fp=output_file) replaces
\* whatever is at the path by the score of the run that saves.
midi_data_write(d, path, s, measures) ==
    [d EXCEPT ![path] = [writer |-> s, measures |-> measures]]

\* A run of main() that has parsed its command line and built init_state.
NewSession(a, out) ==
    [args |-> a, output_midi |-> out, pc |-> add_edge(START), step |-> 0,
     measures |-> 0, target_measures |-> 0,
     reviewer_satisfied |-> FALSE, review_iterations |-> 0,
     in_review_mode |-> FALSE, all_extended |-> TRUE,
     raised |-> "none", exit_code |-> -1]

PairInit ==
    /\ Idle
    /\ score = NoScore
    /\ call = NoCall
    /\ \E out \in [Sessions -> OutputPaths] :
          sessions = [s \in Sessions |->
                        NewSession([recursion_limit |-> MaxRecursionLimit,
                                    measures |-> MaxAddMeasures - 1,
                                    max_review_iterations |-> MaxReviewCeiling],
                                   out[s])]
    /\ disk = [p \in Paths |-> NoFile]

PairTick(s, n) ==
    /\ sessions[s].exit_code = -1
    /\ sessions[s].pc = n
    /\ ~out_of_steps(sessions[s].step, sessions[s].args.recursion_limit)

PairFrame ==
    UNCHANGED <<args, input_file, pc, step, target_measures, midi_handler, kb,
                messages, reviewer_satisfied, review_iterations, in_review_mode,
                agent, files, stdout, exit_code, hist, score, call>>

pair_dynamic_rule_builder(s) ==
    /\ PairTick(s, "dynamic_rule_builder")
    /\ \E loaded \in 1..(MaxMeasures - 1) :
          sessions' = [sessions EXCEPT ![s] =
                          [@ EXCEPT !.pc = add_edge("dynamic_rule_builder"),
                                    !.step = @ + 1,
                                    !.measures = loaded,
                                    !.target_measures =
                                        target_after_build(sessions[s].args.measures,
                                                           loaded)]]
    /\ UNCHANGED disk
    /\ PairFrame

pair_composer_planner(s) ==
    /\ PairTick(s, "composer_planner")
    /\ sessions' = [sessions EXCEPT ![s] =
                        [@ EXCEPT !.pc = add_edge("composer_planner"), !.step = @ + 1]]
    /\ UNCHANGED disk
    /\ PairFrame

\* One hand-off, from the first agent step to after_handler.  The score is
\* followed up to one measure past the target.
pair_handler_agent(s) ==
    /\ PairTick(s, "handler_agent")
    /\ \E tool \in MIDI_TOOLS :
         \E m \in measures_up_to(tool, "applied", sessions[s].measures,
                                 sessions[s].target_measures + 1) :
            LET mode == sessions[s].in_review_mode
                target == sessions[s].target_measures
            IN  /\ sessions' = [sessions EXCEPT ![s] =
                                   [@ EXCEPT !.pc = after_handler(mode, m, target),
                                             !.step = @ + 1,
                                             !.measures = m,
                                             !.all_extended =
                                                 IF mode THEN @
                                                 ELSE @ /\ m > sessions[s].measures]]
                /\ disk' = IF saves_pre_review(mode, m, target)
                           THEN midi_data_write(disk, PreReviewPath, s, m)
                           ELSE disk
    /\ PairFrame

pair_reviewer_planner(s) ==
    /\ PairTick(s, "reviewer_planner")
    /\ \E r \in IF ceiling_reached(sessions[s].review_iterations,
                                    sessions[s].args.max_review_iterations)
                 THEN {ceiling_return(sessions[s].review_iterations)}
                 ELSE {satisfied_return(sessions[s].review_iterations),
                       revise_return(sessions[s].review_iterations)} :
          sessions' = [sessions EXCEPT ![s] =
                          [@ EXCEPT !.pc = after_reviewer(r.reviewer_satisfied),
                                    !.step = @ + 1,
                                    !.reviewer_satisfied = r.reviewer_satisfied,
                                    !.review_iterations = r.review_iterations,
                                    !.in_review_mode = r.in_review_mode]]
    /\ UNCHANGED disk
    /\ PairFrame

\* A node raises (an oracle call, music21, the handler's own recursion
\* limit): main() exits with 1.
pair_except(s) ==
    /\ \E n \in Nodes : PairTick(s, n)
    /\ sessions' = [sessions EXCEPT ![s] =
                        [@ EXCEPT !.pc = "exited",
                                  !.step = @ + 1,
                                  !.raised = "Exception",
                                  !.exit_code = except_exit_code("Exception")]]
    /\ UNCHANGED disk
    /\ PairFrame

\* Another superstep of the graph is due and the recursion limit is used up.
pair_graph_recursion_error(s) ==
    /\ sessions[s].exit_code = -1
    /\ sessions[s].pc \in Nodes
    /\ out_of_steps(sessions[s].step, sessions[s].args.recursion_limit)
    /\ sessions' = [sessions EXCEPT ![s] =
                        [@ EXCEPT !.pc = "exited",
                                  !.raised = "GraphRecursionError",
                                  !.exit_code = except_exit_code("GraphRecursionError")]]
    /\ UNCHANGED disk
    /\ PairFrame

pair_main_save(s) ==
    /\ sessions[s].exit_code = -1
    /\ sessions[s].pc = END
    /\ disk' = midi_data_write(disk, sessions[s].output_midi, s, sessions[s].measures)
    /\ sessions' = [sessions EXCEPT ![s] = [@ EXCEPT !.pc = "exited", !.exit_code = 0]]
    /\ PairFrame

PairNext ==
    \E s \in Sessions :
        \/ pair_dynamic_rule_builder(s)
        \/ pair_composer_planner(s)
        \/ pair_handler_agent(s)
        \/ pair_reviewer_planner(s)
        \/ pair_except(s)
        \/ pair_graph_recursion_error(s)
        \/ pair_main_save(s)

PairSpec == PairInit /\ [][PairNext]_vars

\* ------------------------------------------------------------- DefaultSpec
\* One run of main() with the defaults of the command line, its steps those
\* of a run of PairSpec.  Every step a run can take is taken in the end.

DefaultArgs ==
    [recursion_limit |-> DefaultRecursionLimit, measures |-> DefaultMeasures,
     max_review_iterations |-> DefaultMaxReviewIterations]

DefaultInit ==
    /\ Idle
    /\ score = NoScore
    /\ call = NoCall
    /\ sessions = [s \in {1} |->
                     NewSession(DefaultArgs, "our_generated_output/extended_piece.mid")]
    /\ disk = [p \in Paths |-> NoFile]

DefaultNext ==
    \/ pair_dynamic_rule_builder(1)
    \/ pair_composer_planner(1)
    \/ pair_handler_agent(1)
    \/ pair_reviewer_planner(1)
    \/ pair_except(1)
    \/ pair_graph_recursion_error(1)
    \/ pair_main_save(1)

DefaultSpec == DefaultInit /\ [][DefaultNext]_vars /\ WF_vars(DefaultNext)

\* ------------------------------------------------------------------ claims

\* C1: the nodes executed in a session never number more than recursion_limit;
\* every node execution lowers the remaining step budget by exactly one and
\* none happens with the budget at zero.
C1_StepCeiling ==
    /\ [](NodeRuns <= args.recursion_limit /\ StepBudget >= 0)
    /\ [][NodeRuns' # NodeRuns =>
            /\ NodeRuns' = NodeRuns + 1
            /\ StepBudget > 0
            /\ StepBudget' = StepBudget - 1]_vars

\* C1 witness: a session that used its whole budget and was then stopped.
C1_Witness ==
    /\ NodeRuns = args.recursion_limit
    /\ args.recursion_limit >= 4
    /\ "Graph recursion error" \in stdout

\* C2: a Handler step outside review mode is followed by Composing iff the
\* extent is below the target and by Reviewing iff it is at or above it.
C2_AfterHandlerComposition ==
    [][(HandlerReturned /\ ~in_review_mode) =>
          /\ pc' \in {"composer_planner", "reviewer_planner"}
          /\ (pc' = "composer_planner") <=> (midi_handler'.measures < target_measures')
          /\ (pc' = "reviewer_planner") <=> (midi_handler'.measures >= target_measures')]_vars

\* C2 witness: the Handler was followed by the Composer once (extent short)
\* and has now been followed by the Reviewer (target reached).
C2_Witness ==
    /\ pc = "reviewer_planner"
    /\ hist.composer_runs >= 2
    /\ hist.reviewer_runs = 0
    /\ midi_handler.measures >= target_measures

\* C3: a Handler step in review mode is followed by Reviewing whatever the
\* extent is.
C3_AfterHandlerReview ==
    [][(HandlerReturned /\ in_review_mode) => pc' = "reviewer_planner"]_vars

\* C3 witness: back at the Reviewer after a fix that left the extent below
\* the target.
C3_Witness ==
    /\ pc = "reviewer_planner"
    /\ agent.node = "none"
    /\ in_review_mode
    /\ hist.review_handler_runs >= 1
    /\ midi_handler.measures < target_measures

\* C4: a Reviewer step is followed by Handling iff its verdict is Revise and
\* by Done iff its verdict is Satisfied, genuine or forced.
C4_AfterReviewer ==
    [][ReviewerReturned =>
          /\ (pc' = "handler_agent") <=> (hist'.verdict = "Revise")
          /\ (pc' = END) <=> (hist'.verdict \in {"Satisfied", "Forced"})]_vars

\* C4 witness: Done after a Revise verdict had sent the session to the Handler.
C4_Witness ==
    /\ pc = END
    /\ hist.review_handler_runs >= 1
    /\ hist.verdict \in {"Satisfied", "Forced"}

\* C5: a Reviewer step that starts with the ceiling reached returns Satisfied
\* without an oracle call; with a ceiling of 0 the Reviewer never calls it.
C5_CeilingForcing ==
    /\ [](args.max_review_iterations = 0 => hist.reviewer_llm_calls = 0)
    /\ [][(ReviewerReturned /\ review_iterations >= args.max_review_iterations) =>
            /\ reviewer_satisfied'
            /\ hist'.verdict = "Forced"
            /\ pc' = END
            /\ hist'.reviewer_llm_calls = hist.reviewer_llm_calls]_vars

\* C5 witness: with a ceiling of 0 the first Reviewer step has ended the
\* session.
C5_Witness ==
    /\ args.max_review_iterations = 0
    /\ pc = END
    /\ hist.reviewer_runs = 1
    /\ reviewer_satisfied

\* C6: the Reviewer asks the oracle at most ceiling times, the Handler runs at
\* most ceiling times in review mode, and there are at most ceiling + 1
\* Reviewer steps.
C6_ReviewLoopBounded ==
    /\ hist.reviewer_llm_calls <= args.max_review_iterations
    /\ hist.review_handler_runs <= args.max_review_iterations
    /\ hist.reviewer_runs <= args.max_review_iterations + 1

\* C6 witness: every bound is met with a ceiling above 0.
C6_Witness ==
    /\ args.max_review_iterations >= 1
    /\ hist.reviewer_llm_calls = args.max_review_iterations
    /\ hist.review_handler_runs = args.max_review_iterations
    /\ hist.reviewer_runs = args.max_review_iterations + 1
    /\ pc = END

\* C7: the log the Composer hands to the Handler is the system message and the
\* Composer's instruction, nothing else.
C7_ComposerResetsLog ==
    (HandedOff /\ ~in_review_mode) => messages = <<"system", "human_composer">>

\* C7 witness: a second Composer hand-off, after a Handler run with tool calls.
C7_Witness ==
    /\ HandedOff
    /\ ~in_review_mode
    /\ hist.composer_runs >= 2
    /\ hist.handler_runs >= 1

\* C8: the log the Reviewer hands to the Handler is the system message and the
\* corrective instruction, nothing else.
C8_ReviewerResetsLog ==
    (HandedOff /\ in_review_mode) => messages = <<"system", "human_reviewer">>

\* C9: at Done, a forced Satisfied is told from a genuine one by the session
\* state (review_iterations is above the ceiling exactly when forced) and by
\* the printed lines.
C9_ForcedDistinguishable ==
    (pc = END \/ exit_code = 0) =>
        /\ (hist.verdict = "Forced") <=> (review_iterations > args.max_review_iterations)
        /\ (hist.verdict = "Forced") <=> ("Maximum review iterations reached" \in stdout)
        /\ (hist.verdict = "Satisfied") <=> ("Reviewer is satisfied" \in stdout)

\* C9 witness: Done by ceiling forcing after a genuine review round.
C9_Witness ==
    /\ pc = END
    /\ hist.verdict = "Forced"
    /\ hist.reviewer_llm_calls >= 1

\* C10: with an increment above 0, every composition hand-off adding
\* measures and no Revise verdict, the Composer runs only while the extent is
\* short, the Reviewer runs once, after the target is reached, and its step
\* ends the session.
Straight ==
    /\ args.measures > 0
    /\ hist.all_extended
    /\ hist.review_handler_runs = 0
    /\ hist.verdict # "Revise"

C10_StraightLine ==
    /\ [](Straight =>
            /\ pc = "composer_planner" => midi_handler.measures < target_measures
            /\ pc = "reviewer_planner" =>
                  hist.reviewer_runs = 0 /\ midi_handler.measures >= target_measures
            /\ pc = END =>
                  /\ hist.reviewer_runs = 1
                  /\ midi_handler.measures >= target_measures
                  /\ hist.composer_runs = hist.handler_runs
                  /\ hist.composer_runs \in 1..args.measures)
    /\ [][(Straight /\ ReviewerReturned /\ Straight') => pc' = END]_vars

\* C10 witness: Done after two Composer/Handler rounds that took the extent
\* to the target, with one Reviewer step.
C10_Witness ==
    /\ pc = END
    /\ Straight
    /\ hist.composer_runs = 2
    /\ hist.reviewer_runs = 1
    /\ midi_handler.measures = target_measures
    /\ args.measures = 2

\* C20: target_measures is set once, by dynamic_rule_builder, to the measure
\* count of the file as loaded plus the requested increment; before that it
\* is main()'s 0, and no later step changes it.
C20_TargetFixed ==
    /\ hist.builder_runs = 0 => target_measures = 0
    /\ midi_handler.loaded => target_measures = input_file.measures + args.measures

\* C20 witness: Done with a positive increment after the Handler changed the
\* measure count away from the count at load; the target is still the sum.
C20_Witness ==
    /\ pc = END
    /\ args.measures > 0
    /\ hist.handler_runs >= 1
    /\ midi_handler.measures # input_file.measures
    /\ target_measures = input_file.measures + args.measures

\* C19: when the input file cannot be loaded, or the knowledge base cannot
\* summarise it, dynamic_rule_builder fails and the session ends there with a
\* failure: the oracle has not been asked, no composer_planner, handler_agent
\* or reviewer_planner step has run, and no file has been written.  A missing
\* input file always ends the session this way.
C19_BuilderFailure ==
    /\ (~input_file.exists /\ hist.builder_runs >= 1) => hist.failed_at = "load"
    /\ hist.failed_at \in {"load", "summary"} =>
          /\ pc = "exited" /\ exit_code # 0
          /\ ~midi_handler.loaded
          /\ hist.builder_llm_calls = 0
          /\ hist.composer_llm_calls = 0
          /\ hist.reviewer_llm_calls = 0
          /\ hist.composer_runs = 0 /\ hist.handler_runs = 0 /\ hist.reviewer_runs = 0
          /\ agent.node = "none" /\ messages = <<>>
          /\ files.pre_review = 0 /\ files.output = 0

\* C19 witness: the session has ended in dynamic_rule_builder because the
\* file, though present, could not be summarised.
C19_Witness ==
    /\ input_file.exists
    /\ hist.failed_at = "summary"
    /\ hist.builder_runs = 1
    /\ pc = "exited"

\* C18: when an oracle call fails in dynamic_rule_builder, composer_planner,
\* the handler agent or reviewer_planner, the session is over: main() has
\* exited with a non-zero status through its general except clause, no
\* further step of the graph or of main() can be taken, the output file is
\* not written, and the failing node asked the oracle once, not again.
C18_OracleFailureAborts ==
    hist.failed_at = "oracle" =>
        /\ pc = "exited" /\ exit_code # 0
        /\ hist.raised = "Exception"
        /\ except_line("Exception") \in stdout
        /\ files.output = 0
        /\ ~ENABLED Next
        /\ hist.builder_llm_calls <= hist.builder_runs
        /\ hist.composer_llm_calls <= hist.composer_runs
        /\ hist.reviewer_llm_calls <= hist.reviewer_runs

\* C18 witness: the oracle failed inside the handler agent after a tool call
\* of the first hand-off; the session has ended with status 1.
C18_Witness ==
    /\ hist.failed_at = "oracle"
    /\ hist.handler_runs = 1
    /\ agent.node = "agent" /\ agent.step >= 2
    /\ exit_code = 1

\* C17: the pre-review file is written exactly when handler_agent returns
\* outside review mode and after_handler routes to reviewer_planner; that
\* happens at most once in a session and before reviewer_planner has run.
\* No other step writes it: not the route back to composer_planner, not the
\* return of a fix to reviewer_planner.
C17_PreReviewSave ==
    /\ [](/\ files.pre_review <= 1
          /\ (hist.reviewer_runs >= 1 \/ pc = "reviewer_planner") => files.pre_review = 1)
    /\ [][files'.pre_review # files.pre_review <=>
              (HandlerReturned /\ ~in_review_mode /\ pc' = "reviewer_planner")]_vars
    /\ [][files'.pre_review # files.pre_review =>
              /\ files'.pre_review = files.pre_review + 1
              /\ hist.reviewer_runs = 0
              /\ ~(midi_handler.measures < target_measures)]_vars

\* C17 witness: a fix has returned to reviewer_planner with the target
\* reached, and the pre-review file has been written once.
C17_Witness ==
    /\ pc = "reviewer_planner"
    /\ hist.review_handler_runs = 1
    /\ in_review_mode
    /\ ~(midi_handler.measures < target_measures)
    /\ files.pre_review = 1

\* C16: the output file is written at most once, and it has been written
\* exactly when main() has exited with status 0: not while the graph runs, not
\* yet when the graph has just reached END, and never in a session an
\* exception ended.  A session that wrote it ended with a reviewer verdict
\* that closed the review.
C16_OutputWrittenOnce ==
    /\ files.output <= 1
    /\ files.output = 1 <=> exit_code = 0
    /\ (Running \/ pc = END) => files.output = 0
    /\ hist.raised # "none" => files.output = 0
    /\ files.output = 1 =>
          /\ hist.raised = "none"
          /\ reviewer_satisfied
          /\ hist.verdict \in {"Satisfied", "Forced"}

\* C16 witness: a session with one fix has ended with status 0 and the output
\* file written once.
C16_Witness ==
    /\ pc = "exited"
    /\ exit_code = 0
    /\ hist.review_handler_runs = 1
    /\ files.output = 1

\* C15: main() exits with status 0 only after the graph reached END with the
\* review closed, and then prints its success line and none of the failure
\* lines.  A session ended by the recursion limit, by a missing input file,
\* or by any other exception exits with a non-zero status and prints exactly
\* one of three failure lines, its own; the four lines differ.
OutcomeLines ==
    {"Successfully saved composed MIDI", "Graph recursion error", "File not found",
     "An error occurred during composition"}

C15_ExitCodes ==
    /\ Cardinality(OutcomeLines) = 4
    /\ Running => stdout \cap OutcomeLines = {}
    /\ exit_code = 0 <=> (pc = "exited" /\ hist.raised = "none")
    /\ exit_code = 0 =>
          /\ reviewer_satisfied /\ hist.verdict \in {"Satisfied", "Forced"}
          /\ stdout \cap OutcomeLines = {"Successfully saved composed MIDI"}
    /\ hist.failed_at = "budget" =>
          /\ exit_code \notin {-1, 0}
          /\ stdout \cap OutcomeLines = {"Graph recursion error"}
    /\ hist.failed_at = "load" =>
          /\ exit_code \notin {-1, 0}
          /\ stdout \cap OutcomeLines = {"File not found"}
    /\ hist.failed_at \in {"summary", "oracle", "tool"} =>
          /\ exit_code \notin {-1, 0}
          /\ stdout \cap OutcomeLines = {"An error occurred during composition"}
    /\ (~Running /\ exit_code # 0) => hist.failed_at # "none"

\* C15 witness: the recursion limit ended the session inside the review phase,
\* after the reviewer had asked for a fix; status 1 and the recursion line.
C15_Witness ==
    /\ hist.failed_at = "budget"
    /\ hist.verdict = "Revise"
    /\ exit_code = 1
    /\ "Graph recursion error" \in stdout

\* C11: in the handler's execution of a fix, between two reviewer_planner
\* steps, a tool call that passes the schema (the fix's replace_passage with
\* its new notes) is applied to the score and answered with the tool's
\* confirmation.
C11_FixApplied ==
    (in_review_mode /\ hist.verdict = "Revise" /\ agent.node = "agent"
        /\ agent.last \notin {"none", "rejected"}) =>
            /\ agent.last = "applied"
            /\ messages[Len(messages)] = "tool"

\* C12: a replace_passage call that does not go through, rejected or raised,
\* leaves the score as it found it: the passage is never wiped without the
\* new notes being inserted.
C12_ReplaceAtomic ==
    (call.tool = "replace_passage" /\ call.status # "applied") => ~call.changed

\* C14: a hand-off in which the oracle asks for a tool on every hop ends by
\* handler_agent returning when its own step budget is used up: the
\* recursion limit never ends the session from inside the handler agent.
C14_HandlerBudgetReturns ==
    hist.failed_at = "budget" => agent.node = "none"

\* C13: a tool call whose arguments break the tool's schema is rejected
\* before the tool runs: the score is as it was, the tools node appends an
\* error message to the log, the session keeps running and the agent node,
\* with its next oracle call, comes next.
C13_RejectedCall ==
    [][(agent.node = "tools" /\ agent'.last = "rejected") =>
          /\ midi_handler' = midi_handler
          /\ messages' = Append(messages, "tool_error")
          /\ agent'.node = "agent"
          /\ pc' = "handler_agent"
          /\ exit_code' = -1
          /\ files' = files]_vars

\* C13 witness: after a rejected call the oracle asked for another tool, and
\* that second call was applied and changed the measure count.
C13_Witness ==
    /\ agent.node = "agent"
    /\ agent.last = "applied"
    /\ Len(messages) >= 4
    /\ messages[Len(messages) - 2] = "tool_error"
    /\ messages[Len(messages)] = "tool"
    /\ midi_handler.measures # agent.entry_measures
    /\ Running

\* C21: dynamic_rule_builder runs exactly once and first, asks the oracle
\* exactly once when it completes, and is followed by composer_planner whatever
\* the increment (zero included); no later step returns to it.
C21_BuilderOnceFirst ==
    /\ hist.builder_runs <= 1
    /\ hist.builder_llm_calls <= hist.builder_runs
    /\ hist.builder_runs = 0 =>
          /\ step = 0
          /\ hist.composer_runs + hist.handler_runs + hist.reviewer_runs = 0
          /\ pc \in {"dynamic_rule_builder", "exited"}
    /\ hist.builder_runs = 1 => pc # "dynamic_rule_builder"
    /\ kb.built => hist.builder_llm_calls = 1
    /\ (kb.built /\ Running /\ hist.composer_runs = 0) =>
          /\ pc = "composer_planner"
          /\ step = 1

\* The builder completed with increment zero, and the session went on to
\* compose, handle and review.
C21_Witness ==
    /\ args.measures = 0
    /\ kb.built
    /\ hist.builder_runs = 1
    /\ hist.builder_llm_calls = 1
    /\ hist.composer_runs >= 1
    /\ hist.reviewer_runs >= 1

\* C22: once dynamic_rule_builder has completed, the knowledge base stays as
\* it was built (the analysis of the file as loaded, the generated rules)
\* for the rest of the session, whatever the Handler does to the score.
C22_KnowledgeBaseFixed ==
    /\ ~kb.built => kb = NoKB
    /\ kb.built =>
          kb = [built |-> TRUE, generated_rules |-> TRUE,
                dynamic_context |-> input_file.measures]

\* The Composer and the Reviewer have read the knowledge base and the score
\* is no longer the one the knowledge base was built from.
C22_Witness ==
    /\ kb.built
    /\ hist.composer_llm_calls >= 1
    /\ hist.reviewer_llm_calls >= 1
    /\ midi_handler.measures # kb.dynamic_context

\* A step of composer_planner that returns.
ComposerReturned ==
    pc = "composer_planner" /\ hist'.composer_runs = hist.composer_runs + 1
        /\ pc' # "exited"

\* C23: a step of composer_planner calls no tool and leaves the score, the
\* target, the knowledge base, the review state and the files as they are;
\* of the session state it changes the messages only.
C23_ComposerOnlyMessages ==
    [][ComposerReturned =>
          /\ midi_handler' = midi_handler
          /\ target_measures' = target_measures
          /\ kb' = kb
          /\ reviewer_satisfied' = reviewer_satisfied
          /\ review_iterations' = review_iterations
          /\ in_review_mode' = in_review_mode
          /\ files' = files
          /\ agent' = agent
          /\ score' = score
          /\ call' = call
          /\ messages' = <<"system", "human_composer">>]_vars

\* The Composer is about to run for the second time, after a hand-off that
\* changed the score.
C23_Witness ==
    /\ Running
    /\ pc = "composer_planner"
    /\ hist.composer_runs = 1
    /\ hist.handler_runs = 1
    /\ midi_handler.measures # input_file.measures

\* C24: a step of reviewer_planner never changes the score nor the files: the
\* answer "verified" ends the session satisfied with the score as it was, and
\* a critique or the forced end leaves the score as it was too.
C24_ReviewerLeavesScore ==
    [][(pc = "reviewer_planner" /\ hist'.reviewer_runs = hist.reviewer_runs + 1) =>
          /\ midi_handler' = midi_handler
          /\ files' = files
          /\ score' = score
          /\ target_measures' = target_measures
          /\ (ReviewerReturned /\ hist'.verdict = "Satisfied") =>
                reviewer_satisfied' /\ pc' = END]_vars

\* The Reviewer has answered "verified" on a score the Handler had changed.
C24_Witness ==
    /\ hist.verdict = "Satisfied"
    /\ reviewer_satisfied
    /\ pc = END
    /\ midi_handler.measures # input_file.measures

\* C28: the first step of reviewer_planner comes only after a hand-off that
\* left the score at or above the target, and once reviewer_planner has run,
\* composer_planner never runs again.
C28_ReviewIsOneWay ==
    /\ []((pc = "reviewer_planner" /\ hist.reviewer_runs = 0) =>
            /\ hist.handler_runs >= 1
            /\ midi_handler.measures >= target_measures)
    /\ [](hist.reviewer_runs >= 1 => pc # "composer_planner")
    /\ [][hist.reviewer_runs >= 1 => hist'.composer_runs = hist.composer_runs]_vars

\* A fix asked for by the Reviewer has left the score short of the target and
\* the session is back at reviewer_planner, not at composer_planner.
C28_Witness ==
    /\ Running
    /\ pc = "reviewer_planner"
    /\ hist.reviewer_runs >= 1
    /\ hist.review_handler_runs >= 1
    /\ hist.composer_runs >= 1
    /\ midi_handler.measures < target_measures

C30_IterationsCounted ==
    /\ review_iterations <= hist.reviewer_runs
    /\ hist.reviewer_runs <= review_iterations + 1
    /\ (Running \/ exit_code = 0 \/ hist.failed_at # "oracle") =>
          review_iterations = hist.reviewer_runs
    /\ hist.reviewer_runs = 0 => review_iterations = 0
    /\ review_iterations <= args.max_review_iterations + 1

\* A critique, then the forced end: the count stands at the ceiling plus one.
C30_Witness ==
    /\ args.max_review_iterations = 1
    /\ hist.verdict = "Forced"
    /\ hist.reviewer_runs = 2
    /\ review_iterations = args.max_review_iterations + 1

\* The notes of the score that start inside [start, end), counted from the
\* start of the part.
InRange(sc, start, end) ==
    [nested |-> {n \in sc.nested : in_window(getOffsetInHierarchy(n), start, end)},
     top |-> SelectSeq(sc.top, LAMBDA n : in_window(n.offset, start, end))]

OutOfRange(sc, start, end) ==
    [nested |-> {n \in sc.nested : ~in_window(getOffsetInHierarchy(n), start, end)},
     top |-> SelectSeq(sc.top, LAMBDA n : ~in_window(n.offset, start, end))]

\* C25: a remove_notes call that the tool accepts removes exactly the notes
\* that start in [start, end), leaves every other note as it is, and reports
\* the number of notes it removed.
C25_RemoveExact ==
    [][(call'.tool = "remove_notes" /\ call'.status = "applied") =>
          /\ score' = OutOfRange(score, call'.start, call'.end)
          /\ call'.report = Cardinality(InRange(score, call'.start, call'.end).nested)
                              + Len(InRange(score, call'.start, call'.end).top)]_vars

\* C26: a remove_notes call with start = end, for every start from 0 up,
\* removes nothing, leaves the score as it is and is answered as a success.
C26_EmptyWindow ==
    (call.tool = "remove_notes" /\ call.start = call.end /\ call.start >= 0) =>
        /\ call.status = "applied"
        /\ ~call.changed
        /\ call.report = 0

\* C27: two runs at the same time share nothing that changes: a step of one
\* run (its checkpoint save and its final save included) leaves the state of
\* the other run and the files the other run has written as they are.
C27_SessionsIsolated ==
    [][\A s \in Sessions : sessions'[s] # sessions[s] =>
          \A t \in Sessions \ {s} :
              /\ sessions'[t] = sessions[t]
              /\ \A p \in Paths : disk[p].writer = t => disk'[p] = disk[p]]_vars

\* Steps of the graph a run needs at most when every composition hand-off
\* adds a measure: the builder, a Composer and a Handler step for each measure
\* of the increment, a Reviewer step and a fix for each review iteration, and
\* the Reviewer step that hits the ceiling.
StepsNeeded(a) == 1 + 2 * a.measures + 2 * a.max_review_iterations + 1

\* C31: with the defaults (increment 8, recursion limit 50, review ceiling 3)
\* a run whose composition hand-offs each add at least one measure never uses
\* up the recursion limit, whatever the Reviewer answers: it needs at most 24
\* of the 50 steps, it ends, and unless a node raises it ends saved, status 0.
C31_DefaultsCompatible ==
    /\ [](sessions[1].all_extended =>
            /\ sessions[1].raised # "GraphRecursionError"
            /\ sessions[1].step <= StepsNeeded(DefaultArgs)
            /\ StepsNeeded(DefaultArgs) < DefaultRecursionLimit
            /\ (sessions[1].pc = "exited" /\ sessions[1].raised = "none") =>
                  sessions[1].exit_code = 0)
    /\ <>(sessions[1].pc = "exited")

\* The longest such run: eight hand-offs of one measure each, three critiques
\* each followed by a fix, the forced end, and the save.
C31_Witness ==
    /\ sessions[1].args = DefaultArgs
    /\ sessions[1].all_extended
    /\ sessions[1].exit_code = 0
    /\ sessions[1].step = StepsNeeded(DefaultArgs)
    /\ sessions[1].review_iterations = DefaultMaxReviewIterations + 1
    /\ disk["our_generated_output/extended_piece.mid"].writer = 1

====
